---- MODULE Spec2Model ----
(***************************************************************************)
(* State-machine model of src/app.py: the Socket.IO signaling relay        *)
(* (on_join, on_signal), the session-backed page flow (index, followup,    *)
(* final_diagnosis_page, treatment), the JSON endpoints that call the      *)
(* generative model (analyze, final_diagnosis_api) and the clinic search   *)
(* (find_clinics).  Each subsystem has its own specification over the      *)
(* shared variables; the variables of the other subsystems stay put.       *)
(***************************************************************************)
EXTENDS Integers, Sequences, FiniteSets, TLC

VARIABLES
    rooms,      \* signaling relay: room name -> set of joined connections
    sio,        \* signaling relay: the last event handled and what it delivered
    session,    \* page flow: the browser's session (key -> value)
    resp,       \* page flow and JSON endpoints: the last HTTP response
    tabs,       \* page flow: the requests in flight, each with its copy of the session
    raceSnap,   \* page flow: the session two overlapping submissions both started from
    nreq,       \* page flow: requests started so far
    gen,        \* /api/analyze: the upstream text and what the endpoint made of it
    clinic      \* /api/find_clinics: the last request, its upstream calls and its response

relayVars == <<rooms, sio>>
pageVars == <<session, resp, tabs, raceSnap, nreq>>
vars == <<rooms, sio, session, resp, tabs, raceSnap, nreq, gen, clinic>>

(***************************************************************************)
(* Values.  data.get(key) yields None for an absent key (and for null).    *)
(***************************************************************************)
NoneVal == "None"
EmptyStr == ""
EmptyObj == "{}"

\* Python truthiness of the payload values used here (`if room`, `if room and signalData`).
Truthy(v) == v \notin {NoneVal, EmptyStr, EmptyObj}

(***************************************************************************)
(* Signaling relay                                                          *)
(***************************************************************************)
MaxConns == 3
Sids == 1..MaxConns
RoomNames == {"r1", "r2"}
RoomVals == RoomNames \cup {NoneVal, EmptyStr}
SignalVals == {"sdp:x", "ice:y", NoneVal, EmptyObj}
Payloads == [room : RoomVals, signalData : SignalVals]

\* The members of a room in the transport's registry; a name nobody joined has none.
Members(rms, room) == IF room \in DOMAIN rms THEN rms[room] ELSE {}

\* join_room(room): the current connection enters the room.
join_room(rms, room, sid) == [rms EXCEPT ![room] = @ \cup {sid}]

\* A relay that announces a join to the others only.
RoomJoinedRecipientsNoSelf(rms, room, sid) == Members(rms, room) \ {sid}
\* emit(..., to=room) after join_room: every member of the room.
RoomJoinedRecipients(rms, room, sid) == Members(rms, room)

\* A relay without skip_sid: the sender hears its own signal.
SignalRecipientsNoSkip(rms, room, sid) == Members(rms, room)
\* emit(..., to=room, skip_sid=request.sid): every member but the sender.
SignalRecipients(rms, room, sid) == Members(rms, room) \ {sid}

\* An error emitted with broadcast=True: every connection.
ErrorRecipientsBroadcast(sid) == Sids
\* emit(...) with no `to`: the sender only.
ErrorRecipients(sid) == {sid}

Deliveries(recipients, event, payload) ==
    {[to |-> m, event |-> event, payload |-> payload] : m \in recipients}

on_join(sid, data) ==
    LET room == data.room IN
    /\ UNCHANGED <<pageVars, gen, clinic>>
    /\ IF Truthy(room)
       THEN /\ rooms' = join_room(rooms, room, sid)
            /\ sio' = [handler |-> "join", sid |-> sid, data |-> data,
                       out |-> Deliveries(RoomJoinedRecipients(rooms', room, sid),
                                          "room_joined", room)]
       ELSE /\ rooms' = rooms
            /\ sio' = [handler |-> "join", sid |-> sid, data |-> data,
                       out |-> Deliveries(ErrorRecipients(sid), "error",
                                          "Room name not provided")]

on_signal(sid, data) ==
    LET room == data.room
        signalData == data.signalData IN
    /\ rooms' = rooms
    /\ UNCHANGED <<pageVars, gen, clinic>>
    /\ IF Truthy(room) /\ Truthy(signalData)
       THEN sio' = [handler |-> "signal", sid |-> sid, data |-> data,
                    out |-> Deliveries(SignalRecipients(rooms, room, sid),
                                       "signal", signalData)]
       ELSE sio' = [handler |-> "signal", sid |-> sid, data |-> data,
                    out |-> Deliveries(ErrorRecipients(sid), "error",
                                       "Missing room or signalData")]

Join == \E sid \in Sids, data \in Payloads : on_join(sid, data)
Signal == \E sid \in Sids, data \in Payloads : on_signal(sid, data)

RelayInit ==
    /\ rooms = [r \in RoomNames |-> {}]
    /\ sio = [handler |-> "none", sid |-> 0,
              data |-> [room |-> NoneVal, signalData |-> NoneVal], out |-> {}]

RelayNext == Join \/ Signal

(***************************************************************************)
(* Generative-model client.  An upstream text is a sequence of tokens:     *)
(* "P" a {disease, score} object with a numeric score, "O" any other JSON  *)
(* object, "N" a number, "[" "]" "," the list punctuation and "X" anything *)
(* that is not JSON (a markdown fence, prose).                             *)
(***************************************************************************)
Tokens == {"P", "O", "N", "[", "]", ",", "X"}

JsonFail == [ok |-> FALSE, kind |-> "none", elems |-> <<>>, next |-> 0]

\* The tag a parsed value has as an element of a list.
ElemTag(tok) == IF tok \in {"P", "O", "N"} THEN tok ELSE "L"

RECURSIVE ParseValue(_, _)
RECURSIVE ParseElems(_, _, _)

\* json.loads descending into one value that starts at token i.
ParseValue(t, i) ==
    IF i > Len(t) THEN JsonFail
    ELSE IF t[i] \in {"P", "O"}
         THEN [ok |-> TRUE, kind |-> "object", elems |-> <<t[i]>>, next |-> i + 1]
    ELSE IF t[i] = "N"
         THEN [ok |-> TRUE, kind |-> "number", elems |-> <<>>, next |-> i + 1]
    ELSE IF t[i] = "["
         THEN IF i + 1 <= Len(t) /\ t[i + 1] = "]"
              THEN [ok |-> TRUE, kind |-> "list", elems |-> <<>>, next |-> i + 2]
              ELSE ParseElems(t, i + 1, <<>>)
    ELSE JsonFail

ParseElems(t, i, acc) ==
    LET v == ParseValue(t, i) IN
    IF ~v.ok THEN JsonFail
    ELSE LET acc2 == Append(acc, ElemTag(t[i])) IN
         IF v.next <= Len(t) /\ t[v.next] = ","
         THEN ParseElems(t, v.next + 1, acc2)
         ELSE IF v.next <= Len(t) /\ t[v.next] = "]"
              THEN [ok |-> TRUE, kind |-> "list", elems |-> acc2, next |-> v.next + 1]
              ELSE JsonFail

\* json.loads(response): the whole text must be one JSON value.
JsonLoads(t) ==
    LET v == ParseValue(t, 1) IN
    IF v.ok /\ v.next = Len(t) + 1 THEN v ELSE JsonFail

EmptyList == [kind |-> "list", elems |-> <<>>]

\* predict_disease_from_text: the parsed value, whatever it is; [] on JSONDecodeError.
predict_disease_from_text(text) ==
    LET v == JsonLoads(text) IN
    IF v.ok THEN [kind |-> v.kind, elems |-> v.elems] ELSE EmptyList

\* final_predictions.extend(value): a list gives its elements, a dict its keys;
\* a number is not iterable (TypeError).
CanExtend(value) == value.kind \in {"list", "object"}
Extend(list, value) ==
    IF value.kind = "list" THEN list \o value.elems
    ELSE IF value.kind = "object"
         THEN list \o (IF value.elems = <<"P">> THEN <<"disease", "score">> ELSE <<"key">>)
    ELSE list

\* A follow-up response is a sequence of lines; " " is a whitespace-only line.
BlankLines == {"", " "}
generate_followup_questions(lines) == SelectSeq(lines, LAMBDA q : q \notin BlankLines)

Range(f) == {f[i] : i \in DOMAIN f}

(***************************************************************************)
(* HTTP routes that call the generative model.  A handler is an operator   *)
(* from the request and the session it was given to the session it leaves  *)
(* and the response.  `down` is the set of model calls that raise.         *)
(***************************************************************************)
CallKinds == {"predict", "followup", "final", "treatment"}
\* The fixed fallback text (its leading warning sign left out).
Fallback == "Unable to fetch treatment details. Please consult a dermatologist."
NoAnswer == "No answer provided"
Questions == {"Q1", "Q2"}
MaxLines == 2

HasKey(s, k) == k \in DOMAIN s
SetKey(s, k, v) == [x \in (DOMAIN s) \cup {k} |-> IF x = k THEN v ELSE s[x]]
EmptySession == [x \in {} |-> <<>>]

Resp(route, method, status, location, calls, failed, treatment, diag) ==
    [route |-> route, method |-> method, status |-> status, location |-> location,
     calls |-> calls, failed |-> failed, treatment |-> treatment, diag |-> diag]

\* A description submission that also drops the answers of the previous flow.
IndexWritesClearAnswers(s, final_predictions, questions) ==
    LET w == SetKey(SetKey(SetKey(s, "predictions", final_predictions),
                           "followup_questions", questions),
                    "detection_mode", "Text Only")
    IN [x \in (DOMAIN w) \ {"user_answers"} |-> w[x]]
\* index, lines 252-254: the three session writes of a description submission;
\* every other key stays.
IndexWrites(s, final_predictions, questions) ==
    SetKey(SetKey(SetKey(s, "predictions", final_predictions),
                  "followup_questions", questions),
           "detection_mode", "Text Only")

index(req, s) ==
    LET callsPredict == req.description # ""
        predictFails == callsPredict /\ "predict" \in req.down
        text_predictions == predict_disease_from_text(req.predText)
        extendFails == callsPredict /\ ~predictFails /\ ~CanExtend(text_predictions)
        final_predictions == IF callsPredict THEN Extend(<<>>, text_predictions) ELSE <<>>
        predictCall == IF callsPredict THEN <<"predict">> ELSE <<>>
        questions == generate_followup_questions(req.fqLines)
    IN
    IF req.method = "GET"
    THEN [session |-> s, wrote |-> FALSE,
          resp |-> Resp("/", "GET", 200, "", <<>>, {}, "", <<>>)]
    ELSE IF predictFails \/ extendFails
    THEN [session |-> s, wrote |-> FALSE,
          resp |-> Resp("/", "POST", 500, "", predictCall,
                        IF predictFails THEN {"predict"} ELSE {}, "", <<>>)]
    ELSE IF "followup" \in req.down
    THEN [session |-> SetKey(s, "predictions", final_predictions), wrote |-> TRUE,
          resp |-> Resp("/", "POST", 500, "", predictCall \o <<"followup">>,
                        {"followup"}, "", <<>>)]
    ELSE [session |-> IndexWrites(s, final_predictions, questions), wrote |-> TRUE,
          resp |-> Resp("/", "POST", 302, "/followup", predictCall \o <<"followup">>,
                        {}, "", <<>>)]

\* A guard that only looks for the key.
FollowupGuardKeyOnly(s) == ~HasKey(s, "followup_questions")
\* followup, line 261: no questions in the session, or an empty list.
FollowupGuard(s) ==
    ~HasKey(s, "followup_questions") \/ s["followup_questions"] = <<>>

\* followup, line 265: one answer per stored question, defaulted when not submitted.
user_answers_of(questions, form) ==
    [q \in Range(questions) |-> IF q \in form THEN "yes" ELSE NoAnswer]

followup(req, s) ==
    IF FollowupGuard(s)
    THEN [session |-> s, wrote |-> FALSE,
          resp |-> Resp("/followup", req.method, 302, "/", <<>>, {}, "", <<>>)]
    ELSE IF req.method = "POST"
    THEN [session |-> SetKey(s, "user_answers",
                             user_answers_of(s["followup_questions"], req.form)),
          wrote |-> TRUE,
          resp |-> Resp("/followup", "POST", 302, "/final_diagnosis", <<>>, {}, "", <<>>)]
    ELSE [session |-> s, wrote |-> FALSE,
          resp |-> Resp("/followup", "GET", 200, "", <<>>, {}, "", <<>>)]

\* final_diagnosis_page, line 273.
FinalDiagnosisGuard(s) == ~HasKey(s, "predictions") \/ ~HasKey(s, "user_answers")

\* The try/except around the treatment call (lines 124-127 and 314-317).
TreatmentOrFallback(down) == IF "treatment" \in down THEN Fallback ELSE "plan"

final_diagnosis_page(req, s) ==
    IF FinalDiagnosisGuard(s)
    THEN [session |-> s, wrote |-> FALSE,
          resp |-> Resp("/final_diagnosis", "GET", 302, "/", <<>>, {}, "", <<>>)]
    ELSE LET diag == <<[predictions |-> s["predictions"],
                        user_answers |-> s["user_answers"]]>> IN
         IF "final" \in req.down
         THEN [session |-> s, wrote |-> FALSE,
               resp |-> Resp("/final_diagnosis", "GET", 500, "", <<"final">>,
                             {"final"}, "", diag)]
         ELSE [session |-> SetKey(s, "final_disease", "Eczema"), wrote |-> TRUE,
               resp |-> Resp("/final_diagnosis", "GET", 200, "", <<"final", "treatment">>,
                             req.down \cap {"treatment"}, TreatmentOrFallback(req.down),
                             diag)]

\* treatment, lines 327-332: the treatment call is made with no try/except.
treatment(req, s) ==
    IF "treatment" \in req.down
    THEN [session |-> s, wrote |-> FALSE,
          resp |-> Resp("/treatment", "GET", 500, "", <<"treatment">>, {"treatment"},
                        "", <<>>)]
    ELSE [session |-> s, wrote |-> FALSE,
          resp |-> Resp("/treatment", "GET", 200, "", <<"treatment">>, {}, "plan", <<>>)]

\* final_diagnosis_api: the same two calls on the request body; no session.
final_diagnosis_api(req, s) ==
    LET diag == <<[predictions |-> <<"P">>,
                   user_answers |-> user_answers_of(<<"Q1">>, req.form)]>> IN
    IF "final" \in req.down
    THEN [session |-> s, wrote |-> FALSE,
          resp |-> Resp("/api/final-diagnosis", "POST", 500, "", <<"final">>,
                        {"final"}, "", diag)]
    ELSE [session |-> s, wrote |-> FALSE,
          resp |-> Resp("/api/final-diagnosis", "POST", 200, "", <<"final", "treatment">>,
                        req.down \cap {"treatment"}, TreatmentOrFallback(req.down), diag)]

Handle(req, s) ==
    CASE req.route = "/" -> index(req, s)
      [] req.route = "/followup" -> followup(req, s)
      [] req.route = "/final_diagnosis" -> final_diagnosis_page(req, s)
      [] req.route = "/treatment" -> treatment(req, s)
      [] req.route = "/api/final-diagnosis" -> final_diagnosis_api(req, s)

(***************************************************************************)
(* Requests                                                                 *)
(***************************************************************************)
Request(route, method, description, predText, fqLines, form, down) ==
    [route |-> route, method |-> method, description |-> description,
     predText |-> predText, fqLines |-> fqLines, form |-> form, down |-> down]

LineSeqs == UNION {[1..n -> Questions \cup {" "}] : n \in 0..MaxLines}
PagePredTexts == {<<"[", "P", "]">>, <<"X">>, <<"N">>}

IndexRequests ==
    {Request("/", "GET", "", <<>>, <<>>, {}, {})} \cup
    {Request("/", "POST", "", <<>>, fl, {}, dn) :
        fl \in LineSeqs, dn \in {{}, {"followup"}}} \cup
    {Request("/", "POST", "rash", pt, fl, {}, dn) :
        pt \in PagePredTexts, fl \in LineSeqs,
        dn \in {{}, {"predict"}, {"followup"}}}
FollowupRequests ==
    {Request("/followup", m, "", <<>>, <<>>, f, {}) :
        m \in {"GET", "POST"}, f \in SUBSET Questions}
FinalDiagnosisRequests ==
    {Request("/final_diagnosis", "GET", "", <<>>, <<>>, {}, dn) :
        dn \in SUBSET {"final", "treatment"}}
TreatmentRequests ==
    {Request("/treatment", "GET", "", <<>>, <<>>, {}, dn) : dn \in SUBSET {"treatment"}}
ApiFinalDiagnosisRequests ==
    {Request("/api/final-diagnosis", "POST", "", <<>>, <<>>, f, dn) :
        f \in SUBSET {"Q1"}, dn \in SUBSET {"final", "treatment"}}

(***************************************************************************)
(* Page flow, one request at a time: the handler runs on the browser's     *)
(* session and the response's cookie replaces it.                          *)
(***************************************************************************)
Index ==
    \E req \in IndexRequests :
        LET r == index(req, session) IN
        /\ session' = r.session
        /\ resp' = r.resp
        /\ UNCHANGED <<tabs, raceSnap, nreq, relayVars, gen, clinic>>

Followup ==
    \E req \in FollowupRequests :
        LET r == followup(req, session) IN
        /\ session' = r.session
        /\ resp' = r.resp
        /\ UNCHANGED <<tabs, raceSnap, nreq, relayVars, gen, clinic>>

FinalDiagnosisPage ==
    \E req \in FinalDiagnosisRequests :
        LET r == final_diagnosis_page(req, session) IN
        /\ session' = r.session
        /\ resp' = r.resp
        /\ UNCHANGED <<tabs, raceSnap, nreq, relayVars, gen, clinic>>

TreatmentPage ==
    \E req \in TreatmentRequests :
        LET r == treatment(req, session) IN
        /\ session' = r.session
        /\ resp' = r.resp
        /\ UNCHANGED <<tabs, raceSnap, nreq, relayVars, gen, clinic>>

FinalDiagnosisApi ==
    \E req \in ApiFinalDiagnosisRequests :
        LET r == final_diagnosis_api(req, session) IN
        /\ session' = r.session
        /\ resp' = r.resp
        /\ UNCHANGED <<tabs, raceSnap, nreq, relayVars, gen, clinic>>

PagesNext == Index \/ Followup \/ FinalDiagnosisPage \/ TreatmentPage \/ FinalDiagnosisApi

(***************************************************************************)
(* Page flow with requests of one browser session in flight together.  A   *)
(* request carries the cookie the browser held when it was sent; when its  *)
(* response arrives, the cookie it sets (if the handler wrote the session) *)
(* replaces whatever the browser holds.                                    *)
(***************************************************************************)
MaxTabs == 2
MaxReq == 5
Tabs == 1..MaxTabs
Idle == [pc |-> "idle"]

RaceRequests ==
    {Request("/", "POST", "rash", <<"[", "P", "]">>, <<q>>, {}, {}) : q \in Questions}
    \cup {Request("/followup", "POST", "", <<>>, <<>>, Questions, {}),
          Request("/final_diagnosis", "GET", "", <<>>, <<>>, {}, {})}

IsSubmission(req) == req.method = "POST" /\ req.route \in {"/", "/followup"}

BeginRequest(t, req) ==
    /\ tabs[t].pc = "idle"
    /\ nreq < MaxReq
    /\ tabs' = [tabs EXCEPT ![t] = [pc |-> "running", req |-> req, snap |-> session]]
    /\ nreq' = nreq + 1
    /\ raceSnap' =
         IF \E u \in Tabs \ {t} :
                /\ tabs[u].pc = "running"
                /\ tabs[u].snap = session
                /\ IsSubmission(req) /\ IsSubmission(tabs[u].req)
                /\ tabs[u].req.route # req.route
         THEN <<session>>
         ELSE raceSnap
    /\ UNCHANGED <<session, resp, relayVars, gen, clinic>>

FinishRequest(t) ==
    /\ tabs[t].pc = "running"
    /\ LET r == Handle(tabs[t].req, tabs[t].snap) IN
         /\ session' = IF r.wrote THEN r.session ELSE session
         /\ resp' = r.resp
    /\ tabs' = [tabs EXCEPT ![t] = Idle]
    /\ UNCHANGED <<nreq, raceSnap, relayVars, gen, clinic>>

Begin == \E t \in Tabs, req \in RaceRequests : BeginRequest(t, req)
Finish == \E t \in Tabs : FinishRequest(t)

RaceNext == Begin \/ Finish

PageInit ==
    /\ session = EmptySession
    /\ resp = Resp("none", "", 0, "", <<>>, {}, "", <<>>)
    /\ tabs = [t \in Tabs |-> Idle]
    /\ raceSnap = <<>>
    /\ nreq = 0

(***************************************************************************)
(* /api/analyze                                                             *)
(***************************************************************************)
MaxTextLen == 3
MaxEntries == 6

RECURSIVE ListBody(_)
ListBody(n) == IF n = 1 THEN <<"P">> ELSE ListBody(n - 1) \o <<",", "P">>
\* The text of a JSON list of n prediction objects.
ListText(n) == IF n = 0 THEN <<"[", "]">> ELSE <<"[">> \o ListBody(n) \o <<"]">>

UpstreamTexts ==
    UNION {[1..n -> Tokens] : n \in 0..MaxTextLen} \cup {ListText(n) : n \in 0..MaxEntries}

\* The endpoint on one upstream text; gen.text is what the model answers.
analyze(description, text, fqLines, down) ==
    LET callsPredict == description # ""
        predictFails == callsPredict /\ "predict" \in down
        text_predictions == predict_disease_from_text(text)
        extendFails == callsPredict /\ ~predictFails /\ ~CanExtend(text_predictions)
        final_predictions == IF callsPredict THEN Extend(<<>>, text_predictions) ELSE <<>>
    IN
    IF predictFails \/ extendFails \/ "followup" \in down
    THEN [text |-> text, description |-> description,
          predicted |-> callsPredict /\ ~predictFails, result |-> text_predictions,
          status |-> 500, predictions |-> <<>>, followup_questions |-> <<>>]
    ELSE [text |-> text, description |-> description,
          predicted |-> callsPredict, result |-> text_predictions,
          status |-> 200, predictions |-> final_predictions,
          followup_questions |-> generate_followup_questions(fqLines)]

Analyze ==
    \E description \in {"", "rash"},
       fqLines \in {<<"Q1", "", "Q2">>, <<" ">>},
       down \in {{}, {"predict"}, {"followup"}} :
        /\ gen' = analyze(description, gen.text, fqLines, down)
        /\ UNCHANGED <<relayVars, pageVars, clinic>>

GenIdle(text) ==
    [text |-> text, description |-> "", predicted |-> FALSE, result |-> EmptyList,
     status |-> 0, predictions |-> <<>>, followup_questions |-> <<>>]

GenInit == gen = GenIdle(<<>>)

PredictNext == Analyze

(***************************************************************************)
(* /api/find_clinics.  clinic.world is what the maps API answers: the      *)
(* geocode status and, per category keyword, the places of the search.     *)
(***************************************************************************)
MaxPlaces == 2
PlaceIds == {"a", "b"}
PlaceLists == UNION {[1..n -> PlaceIds] : n \in 0..MaxPlaces}
GeocodeStatuses == {"OK", "ZERO_RESULTS", "REQUEST_DENIED", NoneVal}
Worlds == [geocode : GeocodeStatuses, NGO : PlaceLists, Government : PlaceLists,
           Private : PlaceLists]

\* categories, lines 152-156, in the dict's iteration order.
categories == <<"NGO", "Government", "Private">>
sorted_order == <<"NGO", "Government", "Private">>

\* A key with the priority order upside down.
SortKeyReversed(c) ==
    IF \E i \in DOMAIN sorted_order : sorted_order[i] = c.category
    THEN 0 - (CHOOSE i \in DOMAIN sorted_order : sorted_order[i] = c.category)
    ELSE 999
\* line 190: the position in sorted_order, 999 for any other category.
SortKey(c) ==
    IF \E i \in DOMAIN sorted_order : sorted_order[i] = c.category
    THEN (CHOOSE i \in DOMAIN sorted_order : sorted_order[i] = c.category) - 1
    ELSE 999

\* list.sort(key=...): stable, ascending by key.
RECURSIVE InsertByKey(_, _)
InsertByKey(x, sorted) ==
    IF sorted = <<>> THEN <<x>>
    ELSE LET last == sorted[Len(sorted)] IN
         IF SortKey(last) <= SortKey(x)
         THEN Append(sorted, x)
         ELSE Append(InsertByKey(x, SubSeq(sorted, 1, Len(sorted) - 1)), last)

RECURSIVE SortClinics(_)
SortClinics(list) ==
    IF list = <<>> THEN <<>>
    ELSE InsertByKey(list[Len(list)], SortClinics(SubSeq(list, 1, Len(list) - 1)))

\* lines 159-187: the clinics of one category, one record per place found.
ClinicsOf(category, places) ==
    [i \in 1..Len(places) |-> [category |-> category, place_id |-> places[i]]]

\* A check that rejects only the "no such place" answer.
GeocodeOkUnlessZeroResults(status) == status # "ZERO_RESULTS"
\* line 145: the geocode answer is usable only with status "OK".
GeocodeOk(status) == status = "OK"

ClinicResp(req, world, status, error, geocodeCalls, searchCalls, detailCalls, list) ==
    [req |-> req, world |-> world, status |-> status, error |-> error,
     calls |-> [geocode |-> geocodeCalls, nearby |-> searchCalls, details |-> detailCalls],
     clinics |-> list]

find_clinics(req, world) ==
    LET geocodes == req.location = "text"
        found == ClinicsOf("NGO", world.NGO) \o ClinicsOf("Government", world.Government)
                 \o ClinicsOf("Private", world.Private)
        g == IF geocodes THEN 1 ELSE 0
    IN
    IF req.range = NoneVal
    THEN ClinicResp(req, world, 500, "TypeError", 0, 0, 0, <<>>)
    ELSE IF geocodes /\ ~GeocodeOk(world.geocode)
    THEN ClinicResp(req, world, 400, "Unable to geocode location", 1, 0, 0, <<>>)
    ELSE IF req.location = NoneVal
    THEN ClinicResp(req, world, 500, "AttributeError", 0, 0, 0, <<>>)
    ELSE ClinicResp(req, world, 200, "", g, Len(categories), Len(found),
                    SortClinics(found))

ClinicRequests == [location : {"text", "coords", NoneVal}, range : {"20", "5", NoneVal}]

FindClinics ==
    \E req \in ClinicRequests :
        /\ clinic' = find_clinics(req, clinic.world)
        /\ UNCHANGED <<relayVars, pageVars, gen>>

ClinicIdle(world) ==
    ClinicResp([location |-> NoneVal, range |-> NoneVal], world, 0, "", 0, 0, 0, <<>>)

ClinicInit ==
    clinic = ClinicIdle([geocode |-> "OK", NGO |-> <<>>, Government |-> <<>>,
                         Private |-> <<>>])

ClinicNext == FindClinics

Init == RelayInit /\ PageInit /\ GenInit /\ ClinicInit

\* The endpoint against every upstream text within the bounds.
PredictInit ==
    /\ RelayInit /\ PageInit /\ ClinicInit
    /\ gen \in {GenIdle(t) : t \in UpstreamTexts}

\* The endpoint against every answer of the maps API within the bounds.
ClinicsInit ==
    /\ RelayInit /\ PageInit /\ GenInit
    /\ clinic \in {ClinicIdle(w) : w \in Worlds}

SpecClinics == ClinicsInit /\ [][ClinicNext]_vars
SpecPredict == PredictInit /\ [][PredictNext]_vars

SpecRelay == Init /\ [][RelayNext]_vars
SpecPages == Init /\ [][PagesNext]_vars
SpecRace == Init /\ [][RaceNext]_vars

(***************************************************************************)
(* Properties                                                               *)
(***************************************************************************)

\* The last event's deliveries are exactly one `event` message carrying `payload`
\* to each connection of `recipients`.
DeliveredExactly(e, recipients, event, payload) ==
    /\ \A c \in Sids :
         c \in recipients <=> [to |-> c, event |-> event, payload |-> payload] \in e.out
    /\ \A d \in e.out : d.event = event /\ d.payload = payload /\ d.to \in recipients

\* C1 as stated: a signal event whose room and signalData are both not missing
\* delivers `signal` with exactly that signalData to every connection that joined
\* the room except the sender, and to nobody else.
C1_SignalRelayedWhenNotMissing ==
    (sio.handler = "signal" /\ sio.data.room # NoneVal /\ sio.data.signalData # NoneVal)
        => DeliveredExactly(sio, Members(rooms, sio.data.room) \ {sio.sid},
                            "signal", sio.data.signalData)

\* C1 amended: a signal event whose room and signalData are both present and
\* non-empty delivers `signal` with exactly that signalData to every connection that
\* joined the room except the sender, and to nobody else (not the sender, not a
\* connection outside the room).
C1_SignalRelayedWhenNonEmpty ==
    (sio.handler = "signal" /\ Truthy(sio.data.room) /\ Truthy(sio.data.signalData))
        => DeliveredExactly(sio, Members(rooms, sio.data.room) \ {sio.sid},
                            "signal", sio.data.signalData)

\* A sender inside a room with another member and an outsider has signalled.
C1_Witness ==
    /\ sio.handler = "signal"
    /\ Truthy(sio.data.room) /\ Truthy(sio.data.signalData)
    /\ sio.sid \in Members(rooms, sio.data.room)
    /\ \E c \in Sids \ {sio.sid} : c \in Members(rooms, sio.data.room)
    /\ \E c \in Sids : c \notin Members(rooms, sio.data.room)
    /\ sio.out # {}

\* What a successful join does: the sender enters the named room, every other room
\* keeps its members, and `room_joined` goes to exactly the room's members.
JoinEffect ==
    /\ \A r \in RoomNames :
         rooms'[r] = IF r = sio'.data.room THEN rooms[r] \cup {sio'.sid} ELSE rooms[r]
    /\ sio'.sid \in Members(rooms', sio'.data.room)
    /\ DeliveredExactly(sio', Members(rooms', sio'.data.room), "room_joined",
                        sio'.data.room)

\* C2 as stated: a join event whose room is not missing adds the sender to that
\* room, leaves every other room's members unchanged, and delivers `room_joined`
\* to every member of the room, the joiner included, and to nobody outside it.
C2_JoinWhenNotMissing ==
    [][(sio'.handler = "join" /\ sio'.data.room # NoneVal) => JoinEffect]_vars

\* C2 amended: a join event whose room is present and non-empty adds the sender to
\* that room, leaves every other room's members unchanged, and delivers
\* `room_joined` to every member of the room, the joiner included, and to nobody
\* outside it.
C2_JoinWhenNonEmpty ==
    [][(sio'.handler = "join" /\ Truthy(sio'.data.room)) => JoinEffect]_vars

\* A connection has joined a room that already had a member, with an outsider left.
C2_Witness ==
    /\ sio.handler = "join"
    /\ Truthy(sio.data.room)
    /\ Cardinality(Members(rooms, sio.data.room)) >= 2
    /\ \E c \in Sids : c \notin Members(rooms, sio.data.room)
    /\ \E r \in RoomNames \ {sio.data.room} : rooms[r] # {}
    /\ \E d \in sio.out : d.to = sio.sid /\ d.event = "room_joined"

Malformed(e) ==
    \/ e.handler = "join" /\ e.data.room = NoneVal
    \/ e.handler = "signal" /\ (e.data.room = NoneVal \/ e.data.signalData = NoneVal)

\* C3: a join without room, or a signal without room or without signalData, gives
\* exactly one `error` message, to the sender only; nothing is broadcast and no
\* room's membership changes.
C3_MalformedGetsPrivateError ==
    [][Malformed(sio') =>
          /\ rooms' = rooms
          /\ Cardinality(sio'.out) = 1
          /\ \A d \in sio'.out : d.to = sio'.sid /\ d.event = "error"]_vars

\* A member of a room with other members has sent a signal without signalData.
C3_Witness ==
    /\ sio.handler = "signal"
    /\ sio.data.signalData = NoneVal
    /\ sio.data.room \in RoomNames
    /\ sio.sid \in rooms[sio.data.room]
    /\ Cardinality(rooms[sio.data.room]) >= 2
    /\ \E d \in sio.out : d.event = "error"

NoQuestions(s) ==
    "followup_questions" \notin DOMAIN s \/ Len(s["followup_questions"]) = 0

\* C4: /followup (GET or POST) on a session with no followup_questions or an empty
\* list, and /final_diagnosis on a session without predictions or without
\* user_answers, redirect to the start page, call no model and leave the session
\* as it was.
C4_NavigationGuards ==
    [][(\/ resp'.route = "/followup" /\ NoQuestions(session)
        \/ /\ resp'.route = "/final_diagnosis"
           /\ ("predictions" \notin DOMAIN session \/ "user_answers" \notin DOMAIN session))
       => /\ resp'.status = 302
          /\ resp'.location = "/"
          /\ resp'.calls = <<>>
          /\ session' = session]_vars

\* Answers were posted to /followup on a session whose question list is empty.
C4_Witness ==
    /\ resp.route = "/followup"
    /\ resp.method = "POST"
    /\ resp.status = 302 /\ resp.location = "/"
    /\ "followup_questions" \in DOMAIN session
    /\ session["followup_questions"] = <<>>
    /\ "predictions" \in DOMAIN session

CategoryRank(c) ==
    CASE c = "NGO" -> 1 [] c = "Government" -> 2 [] c = "Private" -> 3 [] OTHER -> 4

\* C5: in the list find_clinics returns, every NGO entry precedes every Government
\* entry, every Government entry every Private entry, and every Private entry any
\* entry of another category.
C5_ClinicsOrdered ==
    clinic.status = 200 =>
        \A i, j \in DOMAIN clinic.clinics :
            i < j => CategoryRank(clinic.clinics[i].category)
                        <= CategoryRank(clinic.clinics[j].category)

\* A search that found places in all three categories, the same place twice.
C5_Witness ==
    /\ clinic.status = 200
    /\ \A c \in {"NGO", "Government", "Private"} :
         \E i \in DOMAIN clinic.clinics : clinic.clinics[i].category = c
    /\ Len(clinic.clinics) >= 4
    /\ Len(clinic.clinics) = Len(clinic.world.NGO) + Len(clinic.world.Government)
                                + Len(clinic.world.Private)

\* C6: a text location whose geocode answer has a status other than "OK" ends in
\* HTTP 400 {"error": "Unable to geocode location"} with no nearby-search and no
\* details call; a location given as coordinates makes no geocode call.
C6_GeocodeFailure ==
    /\ (clinic.req.location = "text" /\ clinic.calls.geocode = 1
            /\ clinic.world.geocode # "OK")
         => /\ clinic.status = 400
            /\ clinic.error = "Unable to geocode location"
            /\ clinic.calls.nearby = 0
            /\ clinic.calls.details = 0
    /\ (clinic.req.location = "coords" /\ clinic.status # 0) => clinic.calls.geocode = 0

\* A text location was answered with a status that is neither OK nor ZERO_RESULTS
\* while the searches would have found places.
C6_Witness ==
    /\ clinic.req.location = "text"
    /\ clinic.calls.geocode = 1
    /\ clinic.world.geocode = "REQUEST_DENIED"
    /\ clinic.world.NGO # <<>>
    /\ clinic.status = 400

\* C7: predict_disease_from_text returns a list of at most 5 {disease, score}
\* entries with a numeric score, and the empty list when the upstream text is not
\* valid JSON; never a non-list value and never more than 5 entries.
C7_PredictReturnsShortList ==
    gen.predicted =>
        /\ gen.result.kind = "list"
        /\ Len(gen.result.elems) <= 5
        /\ \A i \in DOMAIN gen.result.elems : gen.result.elems[i] = "P"
        /\ (~JsonLoads(gen.text).ok => gen.result.elems = <<>>)

TreatmentRoutes == {"/api/final-diagnosis", "/final_diagnosis", "/treatment"}

\* C8: at every route that generates a treatment plan, a failing treatment call
\* does not fail the request, which answers with the fixed fallback string, and a
\* failing call of any other kind fails the request.
C8_TreatmentFailureRecovered ==
    resp.route \in TreatmentRoutes =>
        /\ (resp.failed = {"treatment"}
              => resp.status = 200 /\ resp.treatment = Fallback)
        /\ (resp.failed \cap {"predict", "followup", "final"} # {} => resp.status = 500)

AnswersMatchQuestions(s) ==
    /\ "user_answers" \in DOMAIN s
    /\ "followup_questions" \in DOMAIN s
    /\ DOMAIN s["user_answers"] = Range(s["followup_questions"])

SameKey(s1, s2, k) ==
    /\ (k \in DOMAIN s1) = (k \in DOMAIN s2)
    /\ (k \in DOMAIN s1 => s1[k] = s2[k])

\* What the browser holds once the response of request `rq`, sent with the
\* session `sn`, has arrived.
CommittedWrite(rq, sn) ==
    /\ (rq.route = "/" /\ rq.method = "POST") =>
          /\ session'["followup_questions"] = rq.fqLines
          /\ session'["predictions"] = <<"P">>
          /\ SameKey(session', sn, "user_answers")
          /\ SameKey(session', sn, "final_disease")
    /\ (rq.route = "/followup" /\ rq.method = "POST" /\ ~NoQuestions(sn)) =>
          /\ DOMAIN session'["user_answers"] = Range(sn["followup_questions"])
          /\ SameKey(session', sn, "followup_questions")
          /\ SameKey(session', sn, "predictions")
    /\ (/\ rq.route = "/final_diagnosis"
        /\ "predictions" \in DOMAIN sn /\ "user_answers" \in DOMAIN sn) =>
          /\ resp'.status = 200
          /\ resp'.calls # <<>>
          /\ resp'.diag = <<[predictions |-> sn["predictions"],
                             user_answers |-> sn["user_answers"]]>>
          /\ SameKey(session', sn, "followup_questions")
          /\ SameKey(session', sn, "user_answers")

\* C9: session writes of requests in flight together are last-writer-wins with no
\* guard.  When a response arrives, the browser's session becomes what that request
\* made of the session it was sent with, whatever another request stored meanwhile:
\* POST / stores its questions and keeps the answers it was sent with, POST
\* /followup stores answers keyed by the questions it was sent with, and GET
\* /final_diagnosis runs the diagnosis on the pair it was sent with, matching or not.
C9_LastWriterWins ==
    [][\A t \in Tabs :
          (tabs[t].pc = "running" /\ tabs'[t].pc = "idle")
              => CommittedWrite(tabs[t].req, tabs[t].snap)]_vars

\* A description submission and an answer submission were in flight together,
\* both sent with the same session, in which the answers matched the questions;
\* afterwards the stored answers are not for the stored questions and GET
\* /final_diagnosis has run the diagnosis on that pair.
C9_Witness ==
    /\ raceSnap # <<>>
    /\ AnswersMatchQuestions(raceSnap[1])
    /\ \A t \in Tabs : tabs[t].pc = "idle"
    /\ resp.route = "/final_diagnosis" /\ resp.status = 200 /\ resp.calls # <<>>
    /\ "user_answers" \in DOMAIN session
    /\ ~AnswersMatchQuestions(session)
    /\ resp.diag = <<[predictions |-> session["predictions"],
                      user_answers |-> session["user_answers"]]>>

\* C10: with one request at a time, whenever GET /final_diagnosis passes its guard
\* and calls the model, the stored user_answers are the answers to the stored
\* followup_questions (their key set is the set of stored questions).
C10_DiagnosisOnCurrentAnswers ==
    (resp.route = "/final_diagnosis" /\ resp.calls # <<>>)
        => AnswersMatchQuestions(session)

====
